---- MODULE Spec2Model ----
(***************************************************************************)
(* State-machine model of the Film Room backend (FastAPI + SQLAlchemy).   *)
(* The database tables are the state; every request handler and webhook   *)
(* is one atomic action translated from its Python source.                *)
(*                                                                         *)
(* Conventions                                                            *)
(*   - a nullable column holds None (<<>>) or Some(v) (<<v>>);            *)
(*   - strings that the code parses (S3 keys, s3:// locations) are        *)
(*     sequences of tokens: "/" is the separator, "s3://" the scheme;     *)
(*   - the clock `now` is datetime.utcnow() in seconds;                   *)
(*   - `last` is the response of the request handled by the last step    *)
(*     (operation, caller, target, HTTP code, body or logged result).     *)
(*   - `uploads` is the session_uploads table, `tasks` the background     *)
(*     tasks scheduled and not yet run, `inflight` the requests between   *)
(*     their existence check and their INSERT, `tokens` the JWTs the      *)
(*     server has issued (a record of the claims and the key),            *)
(*     `profiles` the client_profiles table;                              *)
(*   - created_at / updated_at of sessions are not part of the model.     *)
(***************************************************************************)
EXTENDS Integers, Sequences, FiniteSets, TLC

VARIABLES users, sessions, nextSession, bucket, invitations, now, last,
          uploads, nextUpload, tasks, inflight, tokens, profiles

vars == <<users, sessions, nextSession, bucket, invitations, now, last,
          uploads, nextUpload, tasks, inflight, tokens, profiles>>

----------------------------------------------------------------------------
(* Bounds of the model *)

MaxSessions == 1

MaxTicks == 1

TickSeconds == 45

MaxWeeks == 1

MaxInvitations == 2

----------------------------------------------------------------------------
(* Nullable values *)

None == <<>>

Some(v) == <<v>>

IsSet(x) == x # None

Val(x) == x[1]

----------------------------------------------------------------------------
(* Users (models/user.py) *)

UserRole == {"coach", "client", "admin"}

UserIds == {"c1", "u1"}

(* pwd_context.hash / pwd_context.verify: the hash is not the password, and *)
(* a password verifies against its own hash alone                           *)
GetPasswordHash(password) == <<"bcrypt", password>>

VerifyPassword(plain_password, hashed_password) ==
    hashed_password = GetPasswordHash(plain_password)

InitialUsers ==
    [u \in UserIds |->
        IF u = "u1"
        THEN [email |-> "u1@x", role |-> "client", is_active |-> TRUE,
              hashed_password |-> GetPasswordHash("password-u1"), last_login_at |-> None]
        ELSE [email |-> "c1@x", role |-> "coach", is_active |-> TRUE,
              hashed_password |-> GetPasswordHash("password-c1"), last_login_at |-> None]]

(* get_current_active_user: the authenticated callers of a request *)
ActiveUsers == {u \in DOMAIN users : users[u].is_active}

----------------------------------------------------------------------------
(* Sessions (models/session.py) *)

SessionStatus == {"scheduled", "in_progress", "completed", "cancelled", "no_show"}

Titles == {"t1"}

(* request.scheduled_at: one hour after the service starts *)
ScheduledTimes == {60 * 60}

(* session_date.strftime('%Y-%m-%d'): the day a time falls on *)
DayOf(t) == t \div (24 * 60 * 60)

(* SessionStorageService.generate_s3_key *)
GenerateS3Key(coach, client, session_date, filename) ==
    <<"coaches", "/", coach, "/", "clients", "/", client, "/", ToString(DayOf(session_date)), "/", filename>>

(* the storage keys used as inputs: one in a coach's folder, one written by the egress *)
KeyOfC1 == GenerateS3Key("c1", "u1", 0, "f.mp4")

KeyOfEgress == <<"recordings", "/", "room", "/", "r.mp4">>

S3Keys == {KeyOfC1, KeyOfEgress}

(* str.startswith *)
StartsWith(s, prefix) ==
    /\ Len(s) >= Len(prefix)
    /\ SubSeq(s, 1, Len(prefix)) = prefix

(* ContentLength of a stored object *)
SizeOf(key) == Len(key)

(* generate_presigned_url('get_object', Key=key) *)
PresignedUrl(key) == <<"https://", "bucket", "/">> \o key

(* Session(...) with the column defaults of models/session.py *)
NewSession(title, coach, client, room, duration, scheduled_at) ==
    [title |-> title,
     scheduled_at |-> scheduled_at,
     duration_minutes |-> duration,
     status |-> "scheduled",
     coach_id |-> coach,
     client_id |-> client,
     room_name |-> room,
     room_sid |-> None,
     started_at |-> None,
     ended_at |-> None,
     actual_duration_minutes |-> None,
     recording_url |-> None,
     recording_s3_key |-> None,
     recording_egress_id |-> None,
     recording_status |-> Some("pending"),
     recording_duration_seconds |-> None,
     recording_size_bytes |-> None,
     recording_started_at |-> None,
     recording_completed_at |-> None,
     external_platform |-> None,
     external_recording_url |-> None,
     s3_upload_key |-> None,
     s3_upload_status |-> Some("pending"),
     s3_upload_completed_at |-> None,
     transcript |-> None,
     transcript_status |-> Some("pending"),
     analysis |-> None,
     analysis_status |-> Some("pending")]

SessionIds == DOMAIN sessions

(* db.query(Session).filter(...).first(): rows are returned in id order *)
First(S) == IF S = {} THEN None ELSE Some(CHOOSE s \in S : \A t \in S : s <= t)

(* int(delta.total_seconds() / 60): truncation toward zero *)
TruncMinutes(seconds) ==
    IF seconds >= 0 THEN seconds \div 60 ELSE 0 - ((0 - seconds) \div 60)

(* f"session_{coach}_{client}_{utcnow:%Y%m%d_%H%M%S}" *)
RoomNameOf(coach, client, t) == <<"session", coach, client, t>>

NoRequest == [op |-> "none", caller |-> "", id |-> 0, code |-> 0, out |-> None]

Response(op, caller, id, code, out) ==
    [op |-> op, caller |-> caller, id |-> id, code |-> code, out |-> out]

----------------------------------------------------------------------------
Init ==
    /\ users = InitialUsers
    /\ sessions = << >>
    /\ nextSession = 1
    /\ bucket = {}
    /\ invitations = << >>
    /\ now = 0
    /\ last = NoRequest
    /\ uploads = << >>
    /\ nextUpload = 1
    /\ tasks = {}
    /\ inflight = {}
    /\ tokens = {}
    /\ profiles = << >>

(* time passes between requests *)
Tick ==
    /\ now + TickSeconds <= MaxTicks * TickSeconds
    /\ now' = now + TickSeconds
    /\ last' = NoRequest
    /\ UNCHANGED <<users, sessions, nextSession, bucket, invitations, uploads, nextUpload, tasks, inflight, tokens, profiles>>

(* INSERT of a session row under the UNIQUE(room_name) constraint *)
RoomTaken(room) ==
    /\ IsSet(room)
    /\ \E s \in SessionIds : sessions[s].room_name = room

(* POST /sessions/; the answer is kept with the client_id of its request *)
CreateSession(caller, client_id, title) ==
    /\ caller \in ActiveUsers
    /\ UNCHANGED <<users, bucket, invitations, now, uploads, nextUpload, tasks, inflight, tokens, profiles>>
    /\ IF users[caller].role # "coach"
       THEN /\ last' = Response("create_session", caller, 0, 403, Some(client_id))
            /\ UNCHANGED <<sessions, nextSession>>
       ELSE IF ~(client_id \in DOMAIN users /\ users[client_id].role = "client")
       THEN /\ last' = Response("create_session", caller, 0, 404, Some(client_id))
            /\ UNCHANGED <<sessions, nextSession>>
       ELSE LET room == Some(RoomNameOf(caller, client_id, now)) IN
            IF RoomTaken(room)
            THEN /\ last' = Response("create_session", caller, 0, 500, Some(client_id))
                 /\ UNCHANGED <<sessions, nextSession>>
            ELSE /\ \E at \in ScheduledTimes :
                    sessions' = (nextSession :> NewSession(title, caller, client_id, room, 60, at)) @@ sessions
                 /\ nextSession' = nextSession + 1
                 /\ last' = Response("create_session", caller, nextSession, 200, Some(client_id))

JoinStartedAtMutant(s) == Some(now)

(* started_at after a join: stamped only when the session was scheduled *)
JoinStartedAt(s) ==
    IF sessions[s].status = "scheduled" THEN Some(now) ELSE sessions[s].started_at

(* POST /sessions/{id}/join *)
JoinSession(caller, sid) ==
    /\ caller \in ActiveUsers
    /\ UNCHANGED <<users, nextSession, bucket, invitations, now, uploads, nextUpload, tasks, inflight, tokens, profiles>>
    /\ IF ~(sid \in SessionIds /\ caller \in {sessions[sid].coach_id, sessions[sid].client_id})
       THEN /\ last' = Response("join_session", caller, sid, 404, None)
            /\ UNCHANGED sessions
       ELSE /\ sessions' = [sessions EXCEPT
                    ![sid].status = IF @ = "scheduled" THEN "in_progress" ELSE @,
                    ![sid].started_at = JoinStartedAt(sid)]
            /\ last' = Response("join_session", caller, sid, 200,
                                Some([room_name |-> sessions[sid].room_name, token |-> TRUE]))

(* one PATCH body: every field is optional *)
UpdateSessionRequests ==
    [title : {None} \cup {Some(t) : t \in Titles},
     status : {None} \cup {Some(st) : st \in SessionStatus}]

(* status after a PATCH: whatever the body names, from any status *)
UpdateStatus(s, req) ==
    IF IsSet(req.status) THEN Val(req.status) ELSE sessions[s].status

(* PATCH /sessions/{id} *)
UpdateSession(caller, sid, req) ==
    /\ caller \in ActiveUsers
    /\ UNCHANGED <<users, nextSession, bucket, invitations, now, uploads, nextUpload, tasks, inflight, tokens, profiles>>
    /\ IF ~(sid \in SessionIds /\ sessions[sid].coach_id = caller)
       THEN /\ last' = Response("update_session", caller, sid, 404, None)
            /\ UNCHANGED sessions
       ELSE LET row == sessions[sid]
                stampStart == req.status = Some("in_progress") /\ ~IsSet(row.started_at)
                stampEnd == /\ req.status = Some("completed")
                            /\ ~stampStart
                            /\ ~IsSet(row.ended_at)
            IN  /\ sessions' = [sessions EXCEPT
                        ![sid].title = IF IsSet(req.title) THEN Val(req.title) ELSE @,
                        ![sid].status = UpdateStatus(sid, req),
                        ![sid].started_at = IF stampStart THEN Some(now) ELSE @,
                        ![sid].ended_at = IF stampEnd THEN Some(now) ELSE @,
                        ![sid].actual_duration_minutes =
                            IF stampEnd /\ IsSet(row.started_at)
                            THEN Some(TruncMinutes(now - Val(row.started_at)))
                            ELSE @]
                /\ last' = Response("update_session", caller, sid, 200, None)

EndAllowedMutant(s) == sessions[s].status \in {"in_progress", "completed"}

(* the guard of end_session *)
EndAllowed(s) == sessions[s].status = "in_progress"

(* POST /sessions/{id}/end *)
EndSession(caller, sid) ==
    /\ caller \in ActiveUsers
    /\ UNCHANGED <<users, nextSession, bucket, invitations, now, uploads, nextUpload, tasks, inflight, tokens, profiles>>
    /\ IF ~(sid \in SessionIds /\ caller \in {sessions[sid].coach_id, sessions[sid].client_id})
       THEN /\ last' = Response("end_session", caller, sid, 404, None)
            /\ UNCHANGED sessions
       ELSE IF ~EndAllowed(sid)
       THEN /\ last' = Response("end_session", caller, sid, 400, None)
            /\ UNCHANGED sessions
       ELSE /\ sessions' = [sessions EXCEPT
                    ![sid].status = "completed",
                    ![sid].ended_at = Some(now),
                    ![sid].actual_duration_minutes =
                        IF IsSet(sessions[sid].started_at)
                        THEN Some(TruncMinutes(now - Val(sessions[sid].started_at)))
                        ELSE @]
            /\ last' = Response("end_session", caller, sid, 200, None)

(* the table without one row *)
Remove(table, id) == [k \in (DOMAIN table) \ {id} |-> table[k]]

DeleteAllowedMutant(s) == sessions[s].status # "completed"

(* the guard of delete_session *)
DeleteAllowed(s) == sessions[s].status = "scheduled"

(* DELETE /sessions/{id} *)
DeleteSession(caller, sid) ==
    /\ caller \in ActiveUsers
    /\ UNCHANGED <<users, nextSession, bucket, invitations, now, uploads, nextUpload, tasks, inflight, tokens, profiles>>
    /\ IF ~(sid \in SessionIds /\ sessions[sid].coach_id = caller)
       THEN /\ last' = Response("delete_session", caller, sid, 404, None)
            /\ UNCHANGED sessions
       ELSE IF ~DeleteAllowed(sid)
       THEN /\ last' = Response("delete_session", caller, sid, 400, None)
            /\ UNCHANGED sessions
       ELSE /\ sessions' = Remove(sessions, sid)
            /\ last' = Response("delete_session", caller, sid, 200, None)

(* a room event of the video provider; start is the outcome of
   RecordingService.start_recording (None, or the egress the provider started) *)
RoomEvents == {"room_started", "room_finished", "participant_joined"}

SessionOfRoom(room) ==
    IF IsSet(room)
    THEN First({s \in SessionIds : sessions[s].room_name = room})
    ELSE None

(* started_at after room_started: always overwritten *)
RoomStartedAtMutant(s) ==
    IF IsSet(sessions[s].started_at) THEN sessions[s].started_at ELSE Some(now)

RoomStartedAt(s) == Some(now)

(* POST /webhooks/livekit/room *)
RoomWebhook(event, room, sid, start) ==
    /\ UNCHANGED <<users, nextSession, bucket, invitations, now, uploads, nextUpload, tasks, inflight, tokens, profiles>>
    /\ last' = Response("room_webhook", "", room, 200, Some([status |-> "success", event |-> event]))
    /\ LET found == SessionOfRoom(room) IN
       IF event = "room_started" /\ IsSet(found)
       THEN LET s == Val(found) IN
            sessions' = [sessions EXCEPT
                ![s].room_sid = sid,
                ![s].status = "in_progress",
                ![s].started_at = RoomStartedAt(s),
                ![s].recording_egress_id = IF IsSet(start) THEN Val(start).egress_id ELSE @,
                ![s].recording_status = IF IsSet(start) THEN Some("pending") ELSE @]
       ELSE IF event = "room_finished" /\ IsSet(found)
       THEN LET s == Val(found) IN
            sessions' = [sessions EXCEPT
                ![s].status = "completed",
                ![s].ended_at = Some(now),
                ![s].actual_duration_minutes =
                    IF IsSet(sessions[s].started_at)
                    THEN Some(TruncMinutes(now - Val(sessions[s].started_at)))
                    ELSE @]
       ELSE UNCHANGED sessions

(* an object arrives in the bucket from outside the API (presigned POST, egress) *)
PutObject(key) ==
    /\ key \notin bucket
    /\ bucket' = bucket \cup {key}
    /\ last' = NoRequest
    /\ UNCHANGED <<users, sessions, nextSession, invitations, now, uploads, nextUpload, tasks, inflight, tokens, profiles>>

(* a completed session that points at a stored recording *)
RecordedSessionMutant(title, coach, client, session_date, duration, key, size) ==
    [NewSession(title, coach, client, None, duration, session_date) EXCEPT
        !.status = "completed",
        !.started_at = Some(session_date),
        !.actual_duration_minutes = Some(duration),
        !.recording_url = Some(PresignedUrl(key)),
        !.recording_s3_key = Some(key),
        !.recording_status = Some("completed"),
        !.recording_size_bytes = Some(size)]

RecordedSession(title, coach, client, session_date, duration, key, size) ==
    [NewSession(title, coach, client, None, duration, session_date) EXCEPT
        !.status = "completed",
        !.started_at = Some(session_date),
        !.ended_at = Some(session_date),
        !.actual_duration_minutes = Some(duration),
        !.recording_url = Some(PresignedUrl(key)),
        !.recording_s3_key = Some(key),
        !.recording_status = Some("completed"),
        !.recording_size_bytes = Some(size)]

SessionOfKey(key) == First({s \in SessionIds : sessions[s].recording_s3_key = Some(key)})

(* POST /coach-sessions/create-from-s3; s3ok: the storage call succeeds *)
CreateSessionFromS3(caller, req, s3ok) ==
    /\ caller \in ActiveUsers
    /\ UNCHANGED <<users, bucket, invitations, now, uploads, nextUpload, tasks, inflight, tokens, profiles>>
    /\ LET fail(code) == /\ last' = Response("create_session_from_s3", caller, req.s3_key, code, None)
                         /\ UNCHANGED <<sessions, nextSession>>
       IN
       IF users[caller].role # "coach" THEN fail(403)
       ELSE IF ~(s3ok /\ req.s3_key \in bucket) THEN fail(404)
       ELSE IF ~StartsWith(req.s3_key, <<"coaches", "/", caller, "/">>) THEN fail(403)
       ELSE IF IsSet(SessionOfKey(req.s3_key)) THEN fail(400)
       ELSE IF ~(req.client_id \in DOMAIN users /\ users[req.client_id].role = "client") THEN fail(404)
       ELSE /\ sessions' = (nextSession :>
                    RecordedSession(req.title, caller, req.client_id, req.session_date,
                                    req.duration_minutes, req.s3_key, SizeOf(req.s3_key)))
                    @@ sessions
            /\ nextSession' = nextSession + 1
            /\ last' = Response("create_session_from_s3", caller, req.s3_key, 200, Some(nextSession))

(* POST /coach-sessions/upload; typeok: the content type is an allowed video type *)
UploadSessionRecording(caller, form, typeok, s3ok) ==
    /\ caller \in ActiveUsers
    /\ UNCHANGED <<users, invitations, now, uploads, nextUpload, tasks, inflight, tokens, profiles>>
    /\ LET key == GenerateS3Key(caller, form.client_id, form.session_date, form.filename)
           fail(code) == /\ last' = Response("upload_session_recording", caller, key, code, None)
                         /\ UNCHANGED <<sessions, nextSession, bucket>>
       IN
       IF users[caller].role # "coach" THEN fail(403)
       ELSE IF ~(form.client_id \in DOMAIN users /\ users[form.client_id].role = "client") THEN fail(404)
       ELSE IF ~typeok THEN fail(400)
       ELSE IF ~s3ok THEN fail(500)
       ELSE /\ bucket' = bucket \cup {key}
            /\ sessions' = (nextSession :>
                    RecordedSession(form.title, caller, form.client_id, form.session_date,
                                    form.duration_minutes, key, SizeOf(key)))
                    @@ sessions
            /\ nextSession' = nextSession + 1
            /\ last' = Response("upload_session_recording", caller, key, 200, Some(nextSession))

DropSessionOfKeyMutant(key) ==
    IF SessionIds # {} THEN Remove(sessions, Val(First(SessionIds))) ELSE sessions

(* the sessions table after delete_s3_recording found the key's session *)
DropSessionOfKey(key) ==
    IF IsSet(SessionOfKey(key)) THEN Remove(sessions, Val(SessionOfKey(key))) ELSE sessions

(* DELETE /coach-sessions/s3-recording/{key}; s3ok: the storage call succeeds *)
DeleteS3Recording(caller, key, s3ok) ==
    /\ caller \in ActiveUsers
    /\ UNCHANGED <<users, nextSession, invitations, now, uploads, nextUpload, tasks, inflight, tokens, profiles>>
    /\ IF users[caller].role # "coach" \/ ~StartsWith(key, <<"coaches", "/", caller, "/">>)
       THEN /\ last' = Response("delete_s3_recording", caller, key, 403, None)
            /\ UNCHANGED <<sessions, bucket>>
       ELSE /\ sessions' = DropSessionOfKey(key)
            /\ IF s3ok
               THEN /\ bucket' = bucket \ {key}
                    /\ last' = Response("delete_s3_recording", caller, key, 200, SessionOfKey(key))
               ELSE /\ UNCHANGED bucket
                    /\ last' = Response("delete_s3_recording", caller, key, 500, SessionOfKey(key))

----------------------------------------------------------------------------
(* Recording webhook (api/webhooks.py, services/recording.py) *)

(* str.replace(tok, ""): every occurrence is removed *)
RemoveAll(s, tok) == SelectSeq(s, LAMBDA x : x # tok)

(* position of the first tok in s, 0 when there is none *)
IndexOf(s, tok) ==
    IF \E i \in 1..Len(s) : s[i] = tok
    THEN CHOOSE i \in 1..Len(s) : s[i] = tok /\ \A j \in 1..(i - 1) : s[j] # tok
    ELSE 0

(* str.split("/", 1) *)
SplitOnce(s) ==
    LET i == IndexOf(s, "/") IN
    IF i = 0 THEN <<s>> ELSE <<SubSeq(s, 1, i - 1), SubSeq(s, i + 1, Len(s))>>

(* payload.get("file", {}).get("location", "") *)
LocationOf(p) == IF IsSet(p.file) THEN Val(p.file).location ELSE <<>>

IsS3Location(p) == StartsWith(LocationOf(p), <<"s3://">>)

(* bucket, key = s3_path.split("/", 1) raises ValueError when there is no "/" *)
HandleWebhookRaises(p) ==
    /\ p.event = "egress_ended"
    /\ IsS3Location(p)
    /\ Len(SplitOnce(RemoveAll(LocationOf(p), "s3://"))) # 2

(* the key RecordingService.handle_webhook extracts from an s3:// location *)
ParsedKey(p) == SplitOnce(RemoveAll(LocationOf(p), "s3://"))[2]

(* RecordingService.handle_webhook *)
HandleWebhook(p) ==
    IF p.event = "egress_started"
    THEN [status |-> "started", s3_key |-> None]
    ELSE IF p.event = "egress_ended"
    THEN [status |-> "completed",
          s3_key |-> IF IsS3Location(p) THEN Some(ParsedKey(p)) ELSE None]
    ELSE [status |-> "unknown", s3_key |-> None]

(* POST /webhooks/livekit/recording (signature check off, as outside production);
   s3configured: RecordingService() finds storage credentials *)
RecordingWebhook(p, s3configured) ==
    /\ UNCHANGED <<users, nextSession, bucket, invitations, now, uploads, nextUpload, tasks, inflight, tokens, profiles>>
    /\ IF HandleWebhookRaises(p)
       THEN /\ last' = Response("recording_webhook", "", p, 500, None)
            /\ UNCHANGED sessions
       ELSE LET result == HandleWebhook(p)
                found == SessionOfRoom(p.room_name)
            IN
            /\ last' = Response("recording_webhook", "", p, 200, Some(result))
            /\ IF ~IsSet(found) THEN UNCHANGED sessions
               ELSE LET s == Val(found) IN
                    IF p.event = "egress_started"
                    THEN sessions' = [sessions EXCEPT
                            ![s].recording_status = Some("recording"),
                            ![s].recording_started_at = Some(now),
                            ![s].recording_egress_id = p.egress_id]
                    ELSE IF p.event = "egress_ended"
                    THEN sessions' = [sessions EXCEPT
                            ![s].recording_status = Some("completed"),
                            ![s].recording_completed_at = Some(now),
                            ![s].recording_duration_seconds =
                                IF IsSet(p.file) THEN Val(p.file).duration ELSE @,
                            ![s].recording_size_bytes =
                                IF IsSet(p.file) THEN Val(p.file).size ELSE @,
                            ![s].recording_s3_key =
                                IF IsSet(p.file) /\ IsSet(result.s3_key) THEN result.s3_key ELSE @,
                            ![s].recording_url =
                                IF IsSet(p.file) /\ IsSet(result.s3_key) /\ s3configured
                                THEN Some(PresignedUrl(Val(result.s3_key))) ELSE @]
                    ELSE IF p.event = "egress_failed"
                    THEN sessions' = [sessions EXCEPT ![s].recording_status = Some("failed")]
                    ELSE UNCHANGED sessions

(* the file.location values of the webhook payloads *)
Locations ==
    {<<"s3://", "bucket", "/">> \o KeyOfEgress,
     <<"s3://", "bucket", "/", "a", "/", "s3://", "k.mp4">>,
     <<"s3://", "bucket">>,
     <<"/", "tmp", "/", "r.mp4">>}

RecordingEvents == {"egress_started", "egress_ended", "egress_failed", "egress_updated"}

RecordingPayloads ==
    [event : RecordingEvents,
     room_name : {None, Some(<<"session", "other">>), Some(RoomNameOf("c1", "u1", 0))},
     egress_id : {Some("EG1")},
     file : {None} \cup {Some([location |-> l, duration |-> Some(10), size |-> Some(7)]) : l \in Locations}]

RecNext ==
    \/ \E c \in UserIds, u \in UserIds, t \in Titles :
            nextSession <= MaxSessions /\ CreateSession(c, u, t)
    \/ \E c \in UserIds, s \in 1..MaxSessions : JoinSession(c, s)
    \/ \E p \in RecordingPayloads, cfg \in BOOLEAN : RecordingWebhook(p, cfg)

RecSpec == Init /\ [][RecNext]_vars

----------------------------------------------------------------------------
(* Inputs of the session lifecycle *)

RoomNames ==
    {sessions[s].room_name : s \in SessionIds} \cup {None, Some(<<"session", "other">>)}

StartOutcomes == {None, Some([egress_id |-> Some("EG1")])}

S3Requests ==
    [s3_key : S3Keys, title : Titles, client_id : UserIds,
     session_date : {0}, duration_minutes : {60}]

UploadForms ==
    [filename : {"f.mp4"}, title : Titles, client_id : UserIds,
     session_date : {0}, duration_minutes : {60}]

Next ==
    \/ Tick
    \/ \E c \in UserIds, u \in UserIds, t \in Titles :
            nextSession <= MaxSessions /\ CreateSession(c, u, t)
    \/ \E c \in UserIds, s \in 1..MaxSessions : JoinSession(c, s)
    \/ \E c \in UserIds, s \in 1..MaxSessions, r \in UpdateSessionRequests : UpdateSession(c, s, r)
    \/ \E c \in UserIds, s \in 1..MaxSessions : EndSession(c, s)
    \/ \E c \in UserIds, s \in 1..MaxSessions : DeleteSession(c, s)
    \/ \E e \in RoomEvents, r \in RoomNames, o \in StartOutcomes : RoomWebhook(e, r, Some("RM1"), o)
    \/ \E k \in S3Keys : PutObject(k)
    \/ \E c \in UserIds, r \in S3Requests, ok \in BOOLEAN :
            nextSession <= MaxSessions /\ CreateSessionFromS3(c, r, ok)
    \/ \E c \in UserIds, f \in UploadForms, t \in BOOLEAN, ok \in BOOLEAN :
            nextSession <= MaxSessions /\ UploadSessionRecording(c, f, t, ok)
    \/ \E c \in UserIds, k \in S3Keys, ok \in BOOLEAN : DeleteS3Recording(c, k, ok)

Spec == Init /\ [][Next]_vars

----------------------------------------------------------------------------
(* Invitations (models/invitation.py, api/invitations.py) *)

(* timedelta(days=7), in seconds *)
InvitationDays == 7

InvitationTTL == InvitationDays * 24 * 60 * 60

InvitationStatus == {"pending", "accepted", "expired", "cancelled"}

InviteEmails == {"a@x", "b@x"}

InvitationIds == DOMAIN invitations

(* The column default of Invitation.token is lambda: secrets.urlsafe_token(32).
   The secrets module has no urlsafe_token (the function is token_urlsafe), so
   the default raises AttributeError when the INSERT of invite_client is
   flushed: the request ends in a 500 and no row is written. *)
TokenDefaultRaises == TRUE

(* Invitation(...) with the column defaults *)
NewInvitation(id, email, coach, t) ==
    [email |-> email,
     token |-> id,
     status |-> "pending",
     coach_id |-> coach,
     created_at |-> t,
     expires_at |-> t + InvitationTTL]

(* the pending-invitation query of invite_client *)
PendingFor(coach, email) ==
    {i \in InvitationIds :
        /\ invitations[i].email = email
        /\ invitations[i].coach_id = coach
        /\ invitations[i].status = "pending"
        /\ invitations[i].expires_at > now}

(* POST /invite *)
InviteClient(caller, email) ==
    /\ caller \in ActiveUsers
    /\ UNCHANGED <<users, sessions, nextSession, bucket, now, uploads, nextUpload, tasks, inflight, tokens, profiles>>
    /\ LET fail(code) == /\ last' = Response("invite_client", caller, email, code, None)
                         /\ UNCHANGED invitations
           id == Cardinality(InvitationIds) + 1
       IN
       IF users[caller].role # "coach" THEN fail(403)
       ELSE IF \E u \in DOMAIN users : users[u].email = email THEN fail(400)
       ELSE IF PendingFor(caller, email) # {} THEN fail(400)
       ELSE IF TokenDefaultRaises THEN fail(500)
       ELSE /\ invitations' = (id :> NewInvitation(id, email, caller, now)) @@ invitations
            /\ last' = Response("invite_client", caller, email, 200, Some(id))

IsExpiredMutant(i) ==
    /\ now < invitations[i].expires_at
    /\ invitations[i].status = "pending"

(* Invitation.is_expired *)
IsExpired(i) ==
    /\ now > invitations[i].expires_at
    /\ invitations[i].status = "pending"

(* GET /invitations; the body reports each listed invitation's status *)
ListInvitations(caller, status_filter) ==
    /\ caller \in ActiveUsers
    /\ UNCHANGED <<users, sessions, nextSession, bucket, now, uploads, nextUpload, tasks, inflight, tokens, profiles>>
    /\ IF users[caller].role # "coach"
       THEN /\ last' = Response("list_invitations", caller, status_filter, 403, None)
            /\ UNCHANGED invitations
       ELSE LET listed == {i \in InvitationIds :
                                /\ invitations[i].coach_id = caller
                                /\ IsSet(status_filter) => invitations[i].status = Val(status_filter)}
                after == [i \in InvitationIds |->
                            IF i \in listed /\ IsExpired(i) /\ invitations[i].status = "pending"
                            THEN [invitations[i] EXCEPT !.status = "expired"]
                            ELSE invitations[i]]
            IN  /\ invitations' = after
                /\ last' = Response("list_invitations", caller, status_filter, 200,
                                    Some([i \in listed |-> after[i].status]))

ResendAllowedMutant(i) == invitations[i].status \in {"pending", "expired"}

(* the guard of resend_invitation *)
ResendAllowed(i) == invitations[i].status = "pending"

(* POST /invitations/{id}/resend *)
ResendInvitation(caller, iid) ==
    /\ caller \in ActiveUsers
    /\ UNCHANGED <<users, sessions, nextSession, bucket, now, uploads, nextUpload, tasks, inflight, tokens, profiles>>
    /\ IF ~(iid \in InvitationIds /\ invitations[iid].coach_id = caller)
       THEN /\ last' = Response("resend_invitation", caller, iid, 404, None)
            /\ UNCHANGED invitations
       ELSE IF ~ResendAllowed(iid)
       THEN /\ last' = Response("resend_invitation", caller, iid, 400, None)
            /\ UNCHANGED invitations
       ELSE /\ invitations' = [invitations EXCEPT ![iid].expires_at = now + InvitationTTL]
            /\ last' = Response("resend_invitation", caller, iid, 200, None)

CancelAllowedMutant(i) == invitations[i].status # "cancelled"

(* the guard of cancel_invitation *)
CancelAllowed(i) == invitations[i].status = "pending"

(* POST /invitations/{id}/cancel *)
CancelInvitation(caller, iid) ==
    /\ caller \in ActiveUsers
    /\ UNCHANGED <<users, sessions, nextSession, bucket, now, uploads, nextUpload, tasks, inflight, tokens, profiles>>
    /\ IF ~(iid \in InvitationIds /\ invitations[iid].coach_id = caller)
       THEN /\ last' = Response("cancel_invitation", caller, iid, 404, None)
            /\ UNCHANGED invitations
       ELSE IF ~CancelAllowed(iid)
       THEN /\ last' = Response("cancel_invitation", caller, iid, 400, None)
            /\ UNCHANGED invitations
       ELSE /\ invitations' = [invitations EXCEPT ![iid].status = "cancelled"]
            /\ last' = Response("cancel_invitation", caller, iid, 200, None)

(* time passes: seconds, or the validity window of an invitation *)
Advance(d) ==
    /\ IF d = InvitationTTL
       THEN now \div InvitationTTL < MaxWeeks
       ELSE (now % InvitationTTL) + d <= MaxTicks * TickSeconds
    /\ now' = now + d
    /\ last' = NoRequest
    /\ UNCHANGED <<users, sessions, nextSession, bucket, invitations, uploads, nextUpload, tasks, inflight, tokens, profiles>>

(* At most one pending, unexpired invitation per (coach, email) pair *)
OnePendingPerPair(table, t) ==
    \A i, j \in DOMAIN table :
        (/\ i # j
         /\ table[i].coach_id = table[j].coach_id
         /\ table[i].email = table[j].email
         /\ table[i].status = "pending" /\ table[i].expires_at > t
         /\ table[j].status = "pending" /\ table[j].expires_at > t) => FALSE

(* Rows of the invitations table when the service starts. POST /invite cannot
   write a row (TokenDefaultRaises), so the rows the other handlers act on are
   the ones already stored: rows shaped by the column defaults, written at
   service start or more than one validity window before it, pending or
   accepted, with at most one pending unexpired row per (coach, email). *)
SeedCreatedAt == {0 - InvitationTTL - TickSeconds, 0}

SeedTables ==
    UNION {
        {tbl \in [1..n -> [email : InviteEmails, coach_id : {"c1"},
                           status : {"pending", "accepted"}, created_at : SeedCreatedAt]] : TRUE}
        : n \in 0..MaxInvitations}

SeedTable(tbl) ==
    [i \in DOMAIN tbl |->
        [NewInvitation(i, tbl[i].email, tbl[i].coach_id, tbl[i].created_at)
            EXCEPT !.status = tbl[i].status]]

InvInit ==
    /\ users = InitialUsers
    /\ sessions = << >>
    /\ nextSession = 1
    /\ bucket = {}
    /\ now = 0
    /\ last = NoRequest
    /\ uploads = << >>
    /\ nextUpload = 1
    /\ tasks = {}
    /\ inflight = {}
    /\ tokens = {}
    /\ profiles = << >>
    /\ \E tbl \in SeedTables :
        /\ invitations = SeedTable(tbl)
        /\ OnePendingPerPair(SeedTable(tbl), 0)

InvNext ==
    \/ \E d \in {TickSeconds, InvitationTTL} : Advance(d)
    \/ \E c \in UserIds, e \in InviteEmails \cup {"u1@x"} : InviteClient(c, e)
    \/ \E c \in UserIds, f \in {None} \cup {Some(st) : st \in InvitationStatus} : ListInvitations(c, f)
    \/ \E c \in UserIds, i \in 1..MaxInvitations : ResendInvitation(c, i)
    \/ \E c \in UserIds, i \in 1..MaxInvitations : CancelInvitation(c, i)

InvSpec == InvInit /\ [][InvNext]_vars

----------------------------------------------------------------------------
(* Session lifecycle: properties *)

AllowedEdges ==
    {<<"scheduled", "in_progress">>, <<"in_progress", "completed">>,
     <<"scheduled", "cancelled">>, <<"scheduled", "no_show">>,
     <<"in_progress", "no_show">>}

(* C1: a session's status only ever changes along the edges of the spec's
   state machine (scheduled -> in_progress -> completed, scheduled ->
   cancelled, scheduled|in_progress -> no_show); completed, cancelled and
   no_show are terminal. *)
C1_StatusFollowsStateMachine ==
    [][\A s \in SessionIds \cap DOMAIN sessions' :
            sessions'[s].status # sessions[s].status
                => <<sessions[s].status, sessions'[s].status>> \in AllowedEdges]_vars

IsParticipant(u, s) == u \in {sessions[s].coach_id, sessions[s].client_id}

(* C2: a join by the session's coach or client succeeds with a room token;
   on a scheduled session it sets status in_progress and started_at to the
   join time, on a session already in_progress it changes neither. *)
C2_JoinStartsOnce ==
    [][(last'.op = "join_session" /\ last'.id \in SessionIds /\ IsParticipant(last'.caller, last'.id))
        => LET s == last'.id IN
           /\ last'.code = 200
           /\ IsSet(last'.out) /\ Val(last'.out).token
           /\ sessions[s].status = "scheduled"
                => /\ sessions'[s].status = "in_progress"
                   /\ sessions'[s].started_at = Some(now)
           /\ sessions[s].status = "in_progress"
                => /\ sessions'[s].status = "in_progress"
                   /\ sessions'[s].started_at = sessions[s].started_at]_vars

(* C2 witness: a join answered with a token while the session had been in
   progress since an earlier time. *)
C2_Witness ==
    /\ last.op = "join_session" /\ last.code = 200
    /\ sessions[last.id].status = "in_progress"
    /\ IsSet(sessions[last.id].started_at)
    /\ Val(sessions[last.id].started_at) < now

(* C3: end by a participant succeeds exactly when the session is
   in_progress, then sets completed and stamps ended_at; otherwise it
   answers 400 and the row is unchanged. *)
C3_EndOnlyFromInProgress ==
    [][(last'.op = "end_session" /\ last'.id \in SessionIds /\ IsParticipant(last'.caller, last'.id))
        => LET s == last'.id IN
           IF sessions[s].status = "in_progress"
           THEN /\ last'.code = 200
                /\ sessions'[s].status = "completed"
                /\ sessions'[s].ended_at = Some(now)
           ELSE /\ last'.code = 400
                /\ sessions' = sessions]_vars

(* C3 witness: a second end, on a session already completed, answered 400. *)
C3_Witness ==
    /\ last.op = "end_session" /\ last.code = 400
    /\ sessions[last.id].status = "completed"
    /\ IsSet(sessions[last.id].ended_at)

(* C4: DELETE on the sessions router removes the row exactly when the caller
   is the session's coach and the status is scheduled; for the coach of a
   session in any other status it answers 400 and the row is unchanged. *)
C4_DeleteOnlyScheduled ==
    [][(last'.op = "delete_session" /\ last'.id \in SessionIds)
        => LET s == last'.id
               byCoach == last'.caller = sessions[s].coach_id
           IN
           /\ (s \notin DOMAIN sessions') <=> (byCoach /\ sessions[s].status = "scheduled")
           /\ (byCoach /\ sessions[s].status # "scheduled") => last'.code = 400
           /\ (s \in DOMAIN sessions') => sessions' = sessions]_vars

(* C4 witness: the coach's delete of an in_progress session answered 400. *)
C4_Witness ==
    /\ last.op = "delete_session" /\ last.code = 400
    /\ sessions[last.id].status = "in_progress"
    /\ last.caller = sessions[last.id].coach_id

(* C5 as claimed: a session row is removed only while its status is
   scheduled. *)
C5_RemovedOnlyWhileScheduled ==
    [][\A s \in SessionIds :
            s \notin DOMAIN sessions' => sessions[s].status = "scheduled"]_vars

(* C5 amended: a session row is removed only by the sessions router's DELETE
   while scheduled, or by DELETE /s3-recording/{key} for the session whose
   recording_s3_key is that key, whatever its status. *)
C5_RemovedScheduledOrByRecordingKey ==
    [][\A s \in SessionIds :
            s \notin DOMAIN sessions'
                => \/ /\ last'.op = "delete_session"
                      /\ last'.id = s
                      /\ sessions[s].status = "scheduled"
                   \/ /\ last'.op = "delete_s3_recording"
                      /\ sessions[s].recording_s3_key = Some(last'.id)]_vars

(* C5 witness: DELETE /s3-recording removed a session row. *)
C5_Witness ==
    /\ last.op = "delete_s3_recording"
    /\ IsSet(last.out)
    /\ Val(last.out) \notin SessionIds

(* round(seconds / 60) as Python rounds: to nearest, halves to even *)
RoundMinutes(seconds) ==
    LET a == IF seconds >= 0 THEN seconds ELSE 0 - seconds
        q == a \div 60
        r == a % 60
        m == IF r < 30 THEN q
             ELSE IF r > 30 THEN q + 1
             ELSE IF q % 2 = 0 THEN q ELSE q + 1
    IN  IF seconds >= 0 THEN m ELSE 0 - m

(* C6: whenever started_at and ended_at are both set,
   actual_duration_minutes is round((ended_at - started_at) in minutes). *)
C6_DurationIsRoundedDifference ==
    \A s \in SessionIds :
        (IsSet(sessions[s].started_at) /\ IsSet(sessions[s].ended_at))
            => sessions[s].actual_duration_minutes =
                    Some(RoundMinutes(Val(sessions[s].ended_at) - Val(sessions[s].started_at)))

----------------------------------------------------------------------------
(* Recording webhook: properties *)

(* the key part of s3://bucket/key: everything after the bucket's "/" *)
UriKeyPart(location) == SplitOnce(Tail(location))[2]

(* an s3:// URI that names an object: scheme, bucket, "/", key *)
IsS3ObjectUri(location) ==
    /\ StartsWith(location, <<"s3://">>)
    /\ Len(SplitOnce(Tail(location))) = 2

(* C10: egress_ended with an s3:// file location for a matching room stores
   the URI's key part, recording_status completed and the payload's
   duration and size; a recording webhook for a room that matches no session
   answers success and changes no session row. *)
C10_EgressEndedStoresUriKey ==
    [][last'.op = "recording_webhook"
        => LET p == last'.id
               found == SessionOfRoom(p.room_name)
           IN
           /\ (IsSet(found) /\ p.event = "egress_ended" /\ IsS3ObjectUri(LocationOf(p)))
                => LET row == sessions'[Val(found)] IN
                   /\ row.recording_s3_key = Some(UriKeyPart(LocationOf(p)))
                   /\ row.recording_status = Some("completed")
                   /\ row.recording_duration_seconds = Val(p.file).duration
                   /\ row.recording_size_bytes = Val(p.file).size
           /\ ~IsSet(found)
                => /\ last'.code = 200
                   /\ sessions' = sessions]_vars

----------------------------------------------------------------------------
(* Invitations: properties *)

(* C7: at every time, each (coach, email) pair has at most one invitation
   that is pending and unexpired, and POST /invite answers 400 and writes no
   row when one exists. *)
C7_OnePendingUnexpiredPerPair ==
    /\ OnePendingPerPair(invitations, now)
    /\ (last.op = "invite_client" /\ users[last.caller].role = "coach"
            /\ PendingFor(last.caller, last.id) # {})
        => last.code = 400

OwnInvitation(u, i) == i \in InvitationIds /\ invitations[i].coach_id = u

(* C8: resend of the caller's own invitation is accepted only while its
   stored status is pending (otherwise 400, nothing changes); accepted, it
   sets expires_at to now + 7 days and leaves token, email, status, coach id
   and created_at, and every other row, as they were. *)
C8_ResendRefreshesExpiryOnly ==
    [][(last'.op = "resend_invitation" /\ OwnInvitation(last'.caller, last'.id))
        => LET i == last'.id IN
           IF invitations[i].status = "pending"
           THEN /\ last'.code = 200
                /\ invitations'[i].expires_at = now + 7 * 24 * 60 * 60
                /\ invitations'[i].token = invitations[i].token
                /\ invitations'[i].email = invitations[i].email
                /\ invitations'[i].status = invitations[i].status
                /\ invitations'[i].coach_id = invitations[i].coach_id
                /\ invitations'[i].created_at = invitations[i].created_at
                /\ \A j \in InvitationIds \ {i} : invitations'[j] = invitations[j]
           ELSE /\ last'.code = 400
                /\ invitations' = invitations]_vars

(* C8 witness: an accepted resend moved the expiry past the default one. *)
C8_Witness ==
    /\ last.op = "resend_invitation" /\ last.code = 200
    /\ invitations[last.id].expires_at = now + InvitationTTL
    /\ invitations[last.id].expires_at > invitations[last.id].created_at + InvitationTTL
    /\ invitations[last.id].status = "pending"

(* C9: a listing that reads a pending invitation whose expires_at is in the
   past stores status expired and reports it expired; a listing reports the
   stored status; a stored expired status is never changed again. *)
C9_ExpiredOnReadAndForGood ==
    [][/\ (last'.op = "list_invitations" /\ last'.code = 200)
            => LET report == Val(last'.out) IN
               \A i \in DOMAIN report :
                    /\ (invitations[i].status = "pending" /\ invitations[i].expires_at < now)
                        => (invitations'[i].status = "expired" /\ report[i] = "expired")
                    /\ report[i] = invitations'[i].status
       /\ \A i \in InvitationIds :
            invitations[i].status = "expired"
                => (i \in DOMAIN invitations' /\ invitations'[i].status = "expired")]_vars

(* C9 witness: a listing reported as expired an invitation that lapsed. *)
C9_Witness ==
    /\ last.op = "list_invitations" /\ last.code = 200
    /\ \E i \in DOMAIN Val(last.out) :
        /\ Val(last.out)[i] = "expired"
        /\ invitations[i].status = "expired"
        /\ invitations[i].expires_at < now

----------------------------------------------------------------------------
(* Recording status: properties *)

(* the order of the spec: pending -> recording -> completed | failed *)
RecordingRank(st) ==
    IF st = Some("pending") THEN 0
    ELSE IF st = Some("recording") THEN 1
    ELSE 2

(* C11: recording_status only moves forward along pending -> recording ->
   completed | failed: never from completed or failed to anything else, and
   never from recording back to pending. *)
C11_RecordingStatusMovesForward ==
    [][\A s \in SessionIds \cap DOMAIN sessions' :
            sessions'[s].recording_status # sessions[s].recording_status
                => /\ RecordingRank(sessions[s].recording_status) < 2
                   /\ RecordingRank(sessions[s].recording_status)
                        < RecordingRank(sessions'[s].recording_status)]_vars

----------------------------------------------------------------------------
(* Recordings router (api/recordings.py, services/s3.py) *)

MaxUploads == 2

(* get_current_user: any user a valid access token names, active or not *)
KnownUsers == DOMAIN users

(* S3Service.generate_session_key: recordings/{coach}/{client}/{date}/{name}_{uuid};
   the uuid4 fragment is fresh for every call *)
GenerateSessionKey(coach, client, session_date, filename, unique_id) ==
    <<"recordings", "/", coach, "/", client, "/", ToString(DayOf(session_date)), "/",
      filename, "_", unique_id>>

ExternalUrls == {<<"https://", "host", "/", "v.mp4">>, <<"https://", "host", "/">>}

(* urlparse(external_url).path.split('/')[-1] or "recording" *)
UrlFilename(url) == IF url[Len(url)] = "/" THEN "recording" ELSE url[Len(url)]

(* SessionUpload(...) with the column defaults of models/session.py *)
NewUpload(session_id, upload_type, original_url, s3_key, upload_status, user, mime_type) ==
    [session_id |-> session_id,
     upload_type |-> upload_type,
     original_url |-> original_url,
     s3_key |-> s3_key,
     file_size_bytes |-> None,
     mime_type |-> mime_type,
     upload_status |-> upload_status,
     error_message |-> None,
     uploaded_by_user_id |-> user]

UploadIds == DOMAIN uploads

(* the session of this id that the caller coaches *)
CoachedSession(caller, sid) ==
    sid \in SessionIds /\ sessions[sid].coach_id = caller

(* what an upload request carries: a file, an external URL, or neither *)
UploadSources ==
    {[file |-> Some("f.mp4"), external_url |-> None],
     [file |-> None, external_url |-> None]}
    \cup {[file |-> None, external_url |-> Some(u)] : u \in ExternalUrls}

(* POST /api/v1/recordings/upload; s3ok: S3Service.upload_file succeeds *)
UploadRecording(caller, sid, src, platform, s3ok) ==
    /\ caller \in KnownUsers
    /\ UNCHANGED <<users, nextSession, invitations, now, inflight, tokens, profiles>>
    /\ LET fail(code) == /\ last' = Response("upload_recording", caller, sid, code, None)
                         /\ UNCHANGED <<sessions, bucket, uploads, nextUpload, tasks>>
       IN
       IF ~CoachedSession(caller, sid) THEN fail(404)
       ELSE IF ~IsSet(src.file) /\ ~IsSet(src.external_url) THEN fail(400)
       ELSE
       LET row == sessions[sid]
           filename == IF IsSet(src.file) THEN Val(src.file) ELSE UrlFilename(Val(src.external_url))
           key == GenerateSessionKey(row.coach_id, row.client_id, row.scheduled_at,
                                     filename, ToString(nextUpload))
           record == NewUpload(sid, IF IsSet(src.file) THEN "manual" ELSE "external",
                               src.external_url, key, "uploading", Some(caller), None)
           started == [row EXCEPT !.external_platform = platform,
                                  !.external_recording_url = src.external_url,
                                  !.s3_upload_key = Some(key),
                                  !.s3_upload_status = Some("uploading")]
       IN
       /\ nextUpload' = nextUpload + 1
       /\ IF IsSet(src.file)
          THEN /\ tasks' = tasks
               /\ IF s3ok
                  THEN /\ bucket' = bucket \cup {key}
                       /\ uploads' = (nextUpload :>
                            [record EXCEPT !.upload_status = "completed",
                                           !.file_size_bytes = Some(SizeOf(key)),
                                           !.mime_type = Some("video/mp4")]) @@ uploads
                       /\ sessions' = [sessions EXCEPT ![sid] =
                            [started EXCEPT !.s3_upload_status = Some("completed"),
                                            !.s3_upload_completed_at = Some(now),
                                            !.recording_size_bytes = Some(SizeOf(key))]]
                       /\ last' = Response("upload_recording", caller, sid, 200,
                                           Some([upload_id |-> nextUpload, status |-> "completed"]))
                  ELSE /\ bucket' = bucket
                       /\ uploads' = (nextUpload :>
                            [record EXCEPT !.upload_status = "failed",
                                           !.error_message = Some("error")]) @@ uploads
                       /\ sessions' = [sessions EXCEPT ![sid] =
                            [started EXCEPT !.s3_upload_status = Some("failed")]]
                       /\ last' = Response("upload_recording", caller, sid, 200,
                                           Some([upload_id |-> nextUpload, status |-> "failed"]))
          ELSE /\ bucket' = bucket
               /\ uploads' = (nextUpload :> record) @@ uploads
               /\ sessions' = [sessions EXCEPT ![sid] = started]
               /\ tasks' = tasks \cup {[upload_record_id |-> nextUpload, session_id |-> sid,
                                        external_url |-> Val(src.external_url), s3_key |-> key]}
               /\ last' = Response("upload_recording", caller, sid, 200,
                                   Some([upload_id |-> nextUpload, status |-> "uploading"]))

(* GET /api/v1/recordings/presigned-upload-url; s3ok: the presigned POST is generated *)
GetPresignedUploadUrl(caller, sid, filename, s3ok) ==
    /\ caller \in KnownUsers
    /\ UNCHANGED <<users, nextSession, bucket, invitations, now, tasks, inflight, tokens, profiles>>
    /\ LET fail(code) == /\ last' = Response("get_presigned_upload_url", caller, sid, code, None)
                         /\ UNCHANGED <<sessions, uploads, nextUpload>>
       IN
       IF ~CoachedSession(caller, sid) THEN fail(404)
       ELSE IF ~s3ok THEN fail(500)
       ELSE LET row == sessions[sid]
                key == GenerateSessionKey(row.coach_id, row.client_id, row.scheduled_at,
                                          filename, ToString(nextUpload))
            IN
            /\ uploads' = (nextUpload :>
                    NewUpload(sid, "manual", None, key, "pending", Some(caller), Some("video/mp4")))
                    @@ uploads
            /\ nextUpload' = nextUpload + 1
            /\ sessions' = [sessions EXCEPT ![sid].s3_upload_key = Some(key),
                                            ![sid].s3_upload_status = Some("pending")]
            /\ last' = Response("get_presigned_upload_url", caller, sid, 200,
                                Some([upload_id |-> nextUpload, s3_key |-> key]))

(* the browser posts the file to the presigned URL of an upload record *)
PutUploadedObject(up) ==
    /\ up \in UploadIds
    /\ uploads[up].s3_key \notin bucket
    /\ bucket' = bucket \cup {uploads[up].s3_key}
    /\ last' = NoRequest
    /\ UNCHANGED <<users, sessions, nextSession, invitations, now, uploads, nextUpload, tasks, inflight, tokens, profiles>>

ConfirmableMutant(caller, up) == up \in UploadIds

(* the upload record confirm_upload acts on: this id, uploaded by the caller *)
Confirmable(caller, up) ==
    up \in UploadIds /\ uploads[up].uploaded_by_user_id = Some(caller)

(* S3Service.get_file_metadata: None when head_object fails *)
FileMetadata(key) == IF key \in bucket THEN Some([size_bytes |-> SizeOf(key)]) ELSE None

(* POST /api/v1/recordings/confirm-upload/{upload_id} *)
ConfirmUpload(caller, up) ==
    /\ caller \in KnownUsers
    /\ UNCHANGED <<users, nextSession, bucket, invitations, now, nextUpload, tasks, inflight, tokens, profiles>>
    /\ IF ~Confirmable(caller, up)
       THEN /\ last' = Response("confirm_upload", caller, up, 404, None)
            /\ UNCHANGED <<sessions, uploads>>
       ELSE LET metadata == FileMetadata(uploads[up].s3_key)
                sid == uploads[up].session_id
            IN
            IF IsSet(metadata)
            THEN /\ uploads' = [uploads EXCEPT
                        ![up].upload_status = "completed",
                        ![up].file_size_bytes = Some(Val(metadata).size_bytes)]
                 /\ sessions' = [sessions EXCEPT
                        ![sid].s3_upload_status = Some("completed"),
                        ![sid].s3_upload_completed_at = Some(now),
                        ![sid].recording_size_bytes = Some(Val(metadata).size_bytes)]
                 /\ last' = Response("confirm_upload", caller, up, 200,
                                     Some([status |-> "completed",
                                           size_bytes |-> Some(Val(metadata).size_bytes)]))
            ELSE /\ UNCHANGED <<sessions, uploads>>
                 /\ last' = Response("confirm_upload", caller, up, 200,
                                     Some([status |-> "not_found", size_bytes |-> None]))

(* the session row after delete_recording cleared its recording fields *)
ClearedRecording(row) ==
    [row EXCEPT !.recording_url = None,
                !.recording_s3_key = None,
                !.s3_upload_key = None,
                !.s3_upload_status = None,
                !.s3_upload_completed_at = None,
                !.external_platform = None,
                !.external_recording_url = None,
                !.recording_size_bytes = None,
                !.recording_duration_seconds = None,
                !.transcript = None,
                !.transcript_status = Some("pending"),
                !.analysis = None,
                !.analysis_status = Some("pending")]

(* DELETE /api/v1/recordings/recording/{session_id};
   s3ok: S3Service.delete_file removes the object (its result is not looked at) *)
DeleteRecording(caller, sid, s3ok) ==
    /\ caller \in KnownUsers
    /\ UNCHANGED <<users, nextSession, invitations, now, nextUpload, tasks, inflight, tokens, profiles>>
    /\ IF ~CoachedSession(caller, sid)
       THEN /\ last' = Response("delete_recording", caller, sid, 404, None)
            /\ UNCHANGED <<sessions, bucket, uploads>>
       ELSE /\ bucket' = IF IsSet(sessions[sid].s3_upload_key) /\ s3ok
                         THEN bucket \ {Val(sessions[sid].s3_upload_key)}
                         ELSE bucket
            /\ sessions' = [sessions EXCEPT ![sid] = ClearedRecording(@)]
            /\ uploads' = [u \in {x \in UploadIds : uploads[x].session_id # sid} |-> uploads[u]]
            /\ last' = Response("delete_recording", caller, sid, 200, None)

(* what the body of the task's try block does:
     "completed"  upload_from_url succeeds,
     "failed"     upload_from_url returns success = False,
     "raised"     an exception leaves the try block after both rows were read
                  (the commit fails) and the except branch commits,
     "lost"       as "raised", and the commit of the except branch fails too *)
TaskOutcomes == {"completed", "failed", "raised", "lost"}

(* the session row after the task: written only where the try block writes it *)
TaskSessionRow(row, key, outcome) ==
    IF outcome = "completed"
    THEN [row EXCEPT !.s3_upload_status = Some("completed"),
                     !.s3_upload_completed_at = Some(now),
                     !.recording_size_bytes = Some(SizeOf(key))]
    ELSE IF outcome = "failed"
    THEN [row EXCEPT !.s3_upload_status = Some("failed")]
    ELSE row

(* the upload row after the task *)
TaskUploadRow(row, key, outcome) ==
    IF outcome = "completed"
    THEN [row EXCEPT !.upload_status = "completed",
                     !.file_size_bytes = Some(SizeOf(key)),
                     !.mime_type = Some("video/mp4")]
    ELSE IF outcome \in {"failed", "raised"}
    THEN [row EXCEPT !.upload_status = "failed",
                     !.error_message = Some("error")]
    ELSE row

(* download_and_upload_recording: the background task of an external upload,
   run to its end in its own database session *)
DownloadAndUploadRecording(t, outcome) ==
    /\ t \in tasks
    /\ tasks' = tasks \ {t}
    /\ UNCHANGED <<users, nextSession, invitations, now, nextUpload, inflight, tokens, profiles>>
    /\ last' = Response("download_and_upload_recording", "", t.upload_record_id, 0,
                        Some([outcome |-> outcome, db_closed |-> TRUE]))
    /\ IF t.upload_record_id \in UploadIds /\ t.session_id \in SessionIds
       THEN /\ uploads' = [uploads EXCEPT ![t.upload_record_id] = TaskUploadRow(@, t.s3_key, outcome)]
            /\ sessions' = [sessions EXCEPT ![t.session_id] = TaskSessionRow(@, t.s3_key, outcome)]
            /\ bucket' = IF outcome = "completed" THEN bucket \cup {t.s3_key} ELSE bucket
       ELSE UNCHANGED <<uploads, sessions, bucket>>

UpNext ==
    \/ \E c \in UserIds, u \in UserIds, t \in Titles :
            nextSession <= MaxSessions /\ CreateSession(c, u, t)
    \/ \E c \in UserIds, s \in 1..MaxSessions, src \in UploadSources,
          pf \in {None, Some("zoom")}, ok \in BOOLEAN :
            nextUpload <= MaxUploads /\ UploadRecording(c, s, src, pf, ok)
    \/ \E c \in UserIds, s \in 1..MaxSessions, ok \in BOOLEAN :
            nextUpload <= MaxUploads /\ GetPresignedUploadUrl(c, s, "f.mp4", ok)
    \/ \E up \in 1..MaxUploads : PutUploadedObject(up)
    \/ \E c \in UserIds, up \in 1..MaxUploads : ConfirmUpload(c, up)
    \/ \E c \in UserIds, s \in 1..MaxSessions, ok \in BOOLEAN : DeleteRecording(c, s, ok)
    \/ \E t \in tasks, o \in TaskOutcomes : DownloadAndUploadRecording(t, o)

UpSpec == Init /\ [][UpNext]_vars

----------------------------------------------------------------------------
(* Recordings router: properties *)

(* C12: after DELETE /recording/{session_id} by the session's coach every
   recording, upload, transcript and analysis field holds its creation-time
   default (the four status fields 'pending', everything else null), no
   SessionUpload row of the session remains, and title, scheduled_at,
   coach_id, client_id and status are unchanged. *)
C12_DeleteRecordingRestoresDefaults ==
    [][(last'.op = "delete_recording" /\ last'.code = 200)
        => LET s == last'.id
               fresh == NewSession(sessions[s].title, sessions[s].coach_id, sessions[s].client_id,
                                   sessions[s].room_name, sessions[s].duration_minutes,
                                   sessions[s].scheduled_at)
               row == sessions'[s]
           IN
           /\ \A f \in {"recording_status", "s3_upload_status", "transcript_status",
                        "analysis_status", "recording_url", "recording_s3_key",
                        "recording_egress_id", "recording_duration_seconds",
                        "recording_size_bytes", "recording_started_at",
                        "recording_completed_at", "external_platform",
                        "external_recording_url", "s3_upload_key",
                        "s3_upload_completed_at", "transcript", "analysis"} :
                    row[f] = fresh[f]
           /\ \A u \in DOMAIN uploads' : uploads'[u].session_id # s
           /\ \A f \in {"title", "scheduled_at", "coach_id", "client_id", "status"} :
                    row[f] = sessions[s][f]]_vars

(* C13: when the background task of an external upload has run, the upload
   row and the owning session's s3_upload_status are both completed, or both
   failed with an error message on the upload row; neither is left at
   uploading, and the task's database session is closed. *)
C13_TaskSettlesBothRows ==
    [][(/\ last'.op = "download_and_upload_recording"
        /\ last'.id \in UploadIds
        /\ uploads[last'.id].session_id \in SessionIds)
        => LET up == uploads'[last'.id]
               row == sessions'[uploads[last'.id].session_id]
           IN
           /\ \/ up.upload_status = "completed" /\ row.s3_upload_status = Some("completed")
              \/ /\ up.upload_status = "failed" /\ row.s3_upload_status = Some("failed")
                 /\ IsSet(up.error_message)
           /\ Val(last'.out).db_closed]_vars

(* C14: confirm-upload acts only on an upload of the caller (otherwise 404,
   nothing changes); when the object is in storage it marks the upload row
   and the owning session completed with the observed size; when it is not,
   it answers not_found without an error and changes no row. *)
C14_ConfirmUploadOwnedAndFound ==
    [][last'.op = "confirm_upload"
        => LET up == last'.id
               own == up \in UploadIds /\ uploads[up].uploaded_by_user_id = Some(last'.caller)
           IN
           IF ~own
           THEN last'.code = 404 /\ sessions' = sessions /\ uploads' = uploads
           ELSE IF uploads[up].s3_key \in bucket
           THEN /\ last'.code = 200
                /\ Val(last'.out).status = "completed"
                /\ uploads'[up].upload_status = "completed"
                /\ uploads'[up].file_size_bytes = Some(SizeOf(uploads[up].s3_key))
                /\ sessions'[uploads[up].session_id].s3_upload_status = Some("completed")
                /\ sessions'[uploads[up].session_id].recording_size_bytes
                        = Some(SizeOf(uploads[up].s3_key))
           ELSE /\ last'.code = 200
                /\ Val(last'.out).status = "not_found"
                /\ sessions' = sessions /\ uploads' = uploads]_vars

(* C14 witness: a confirmation completed an upload that was pending behind a
   presigned URL, and the session carries the observed size. *)
C14_Witness ==
    /\ last.op = "confirm_upload" /\ last.code = 200
    /\ Val(last.out).status = "completed"
    /\ last.id \in UploadIds
    /\ uploads[last.id].upload_type = "manual"
    /\ uploads[last.id].original_url = None
    /\ uploads[last.id].upload_status = "completed"
    /\ sessions[uploads[last.id].session_id].recording_size_bytes = uploads[last.id].file_size_bytes

----------------------------------------------------------------------------
(* Authentication (services/auth.py, api/auth.py, api/users.py) *)

JwtExpirationHours == 24

RefreshTokenDays == 30

PasswordMinLength == 8

AccessTTL == JwtExpirationHours * 3600

RefreshTTL == RefreshTokenDays * 24 * 3600

(* bounds of the authentication runs *)
MaxTokens == 4

MaxElapses == 1

(* client connections, each with at most one registration in flight *)
Conns == {"k1", "k2"}

SecretKey == "secret_key"

(* jwt.encode of the claims under settings.secret_key *)
CreateAccessToken(sub) ==
    [sub |-> Some(sub), type |-> "access", exp |-> now + AccessTTL, key |-> SecretKey]

CreateRefreshToken(sub) ==
    [sub |-> Some(sub), type |-> "refresh", exp |-> now + RefreshTTL, key |-> SecretKey]

(* jwt.decode: the signature must verify under the secret key and exp must *)
(* not lie before the clock; None stands for the 401 of decode_token       *)
DecodeToken(token) ==
    IF token.key = SecretKey /\ token.exp >= now
    THEN Some([sub |-> token.sub, type |-> token.type])
    ELSE None

UserByEmail(email) ==
    LET found == {u \in DOMAIN users : users[u].email = email}
    IN IF found = {} THEN None ELSE Some(CHOOSE u \in found : TRUE)

(* get_current_user: None stands for credentials_exception (401) *)
GetCurrentUserMutant(token) ==
    LET payload == DecodeToken(token)
    IN IF payload = None THEN None
       ELSE IF ~IsSet(Val(payload).sub) THEN None
       ELSE UserByEmail(Val(Val(payload).sub))

GetCurrentUser(token) ==
    LET payload == DecodeToken(token)
    IN IF payload = None THEN None
       ELSE IF ~IsSet(Val(payload).sub) \/ Val(payload).type # "access" THEN None
       ELSE UserByEmail(Val(Val(payload).sub))

(* the request and the body of an answer of the auth router *)
AuthBody(token, issued) == Some([presented |-> token, issued |-> issued])

(* get_current_active_user: whether the resolved user passes *)
ActiveGateMutant(u) == TRUE

ActiveGate(u) == users[u].is_active

(* the caller a token admits to an endpoint for active users, None when *)
(* the dependency raises                                                *)
Admitted(token) ==
    LET u == GetCurrentUser(token)
    IN IF u = None THEN None
       ELSE IF ~ActiveGate(Val(u)) THEN None
       ELSE u

(* the dependency raises: 401 from get_current_user, 400 for an inactive *)
(* user; the endpoint body does not run                                  *)
RefuseToken(token, op) ==
    /\ Admitted(token) = None
    /\ LET u == GetCurrentUser(token)
       IN last' = IF u = None
                  THEN Response(op, "", 0, 401, AuthBody(token, {}))
                  ELSE Response(op, Val(u), 0, 400, AuthBody(token, {}))
    /\ UNCHANGED <<users, sessions, nextSession, bucket, invitations, now,
                   uploads, nextUpload, tasks, inflight, tokens, profiles>>

(* UserRegister.role is upper-cased before it is compared *)
Upper(role) ==
    CASE role = "coach" -> "COACH"
      [] role = "client" -> "CLIENT"
      [] OTHER -> role

RoleOf(role) == IF Upper(role) = "COACH" THEN "coach" ELSE "client"

RegisterRequests ==
    {[email |-> "n1@x", password |-> "password-n1", role |-> "client"],
     [email |-> "u1@x", password |-> "password-n1", role |-> "COACH"],
     [email |-> "n1@x", password |-> "short", role |-> "coach"]}

(* uuid4 primary key of a new row *)
NewUserId == "user" \o ToString(Cardinality(DOMAIN users) + 1)

(* POST /register up to the existence check of create_user: the request is *)
(* validated (422), the email looked up (400), the password measured (400) *)
CreateUserCheck(conn, data) ==
    /\ ~ \E r \in inflight : r.conn = conn
    /\ UNCHANGED <<users, sessions, nextSession, bucket, invitations, now,
                   uploads, nextUpload, tasks, tokens, profiles>>
    /\ LET fail(code) ==
               /\ last' = Response("register", data.email, 0, code, AuthBody(None, {}))
               /\ UNCHANGED inflight
       IN
       IF Len(data.password) < 8 THEN fail(422)
       ELSE IF IsSet(UserByEmail(data.email)) THEN fail(400)
       ELSE IF Len(data.password) < PasswordMinLength THEN fail(400)
       ELSE /\ inflight' = inflight \cup
                    {[conn |-> conn, email |-> data.email,
                      password |-> data.password, role |-> RoleOf(data.role)]}
            /\ last' = NoRequest

(* POST /register from db.add / db.commit on: the UNIQUE index on email    *)
(* refuses a second row, and register turns that error into a 500          *)
CreateUserCommit(r) ==
    /\ r \in inflight
    /\ inflight' = inflight \ {r}
    /\ UNCHANGED <<sessions, nextSession, bucket, invitations, now,
                   uploads, nextUpload, tasks, profiles>>
    /\ IF IsSet(UserByEmail(r.email))
       THEN /\ last' = Response("register", r.email, 0, 500, AuthBody(None, {}))
            /\ UNCHANGED <<users, tokens, profiles>>
       ELSE LET issued == {CreateAccessToken(r.email), CreateRefreshToken(r.email)}
            IN /\ users' = [u \in DOMAIN users \cup {NewUserId} |->
                              IF u \in DOMAIN users THEN users[u]
                              ELSE [email |-> r.email, role |-> r.role, is_active |-> TRUE,
                                    hashed_password |-> GetPasswordHash(r.password),
                                    last_login_at |-> None]]
               /\ tokens' = tokens \cup issued
               /\ last' = Response("register", r.email, 0, 201, AuthBody(None, issued))

(* authenticate_user: the row whose password verifies; it is stamped with  *)
(* the login time before login looks at is_active                          *)
AuthenticateUser(email, password) ==
    LET u == UserByEmail(email)
    IN IF u = None THEN None
       ELSE IF ~VerifyPassword(password, users[Val(u)].hashed_password) THEN None
       ELSE u

(* POST /login *)
Login(email, password) ==
    /\ UNCHANGED <<sessions, nextSession, bucket, invitations, now,
                   uploads, nextUpload, tasks, inflight, profiles>>
    /\ LET u == AuthenticateUser(email, password)
           creds == [username |-> email, password |-> password]
       IN IF u = None
          THEN /\ last' = Response("login", email, 0, 401, AuthBody(creds, {}))
               /\ UNCHANGED <<users, tokens, profiles>>
          ELSE /\ users' = [users EXCEPT ![Val(u)].last_login_at = Some(now)]
               /\ IF ~users[Val(u)].is_active
                  THEN /\ last' = Response("login", email, 0, 403, AuthBody(creds, {}))
                       /\ UNCHANGED tokens
                  ELSE LET issued == {CreateAccessToken(email), CreateRefreshToken(email)}
                       IN /\ tokens' = tokens \cup issued
                          /\ last' = Response("login", email, 0, 200, AuthBody(creds, issued))

(* POST /refresh: whom the token may be exchanged for, None for the 401 *)
RefreshSubject(token) ==
    LET payload == DecodeToken(token)
    IN IF payload = None THEN None
       ELSE IF ~IsSet(Val(payload).sub) \/ Val(payload).type # "refresh" THEN None
       ELSE LET u == UserByEmail(Val(Val(payload).sub))
            IN IF u = None \/ ~users[Val(u)].is_active THEN None ELSE u

RefreshToken(token) ==
    /\ UNCHANGED <<users, sessions, nextSession, bucket, invitations, now,
                   uploads, nextUpload, tasks, inflight, profiles>>
    /\ LET u == RefreshSubject(token)
       IN IF u = None
          THEN /\ last' = Response("refresh_token", "", 0, 401, AuthBody(token, {}))
               /\ UNCHANGED tokens
          ELSE LET email == users[Val(u)].email
                   issued == {CreateAccessToken(email), CreateRefreshToken(email)}
               IN /\ tokens' = tokens \cup issued
                  /\ last' = Response("refresh_token", Val(u), 0, 200, AuthBody(token, issued))

(* POST /logout: get_current_user, nothing is revoked *)
Logout(token) ==
    /\ UNCHANGED <<users, sessions, nextSession, bucket, invitations, now,
                   uploads, nextUpload, tasks, inflight, tokens, profiles>>
    /\ LET u == GetCurrentUser(token)
       IN IF u = None
          THEN last' = Response("logout", "", 0, 401, AuthBody(token, {}))
          ELSE last' = Response("logout", Val(u), 0, 204, AuthBody(token, {}))

(* GET /me *)
GetCurrentUserInfo(u, token) ==
    /\ last' = Response("get_current_user_info", u, 0, 200, AuthBody(token, {}))
    /\ UNCHANGED <<users, sessions, nextSession, bucket, invitations, now,
                   uploads, nextUpload, tasks, inflight, tokens, profiles>>

(* DELETE /profile: UserService.deactivate_user *)
DeactivateAccount(u, token) ==
    /\ users' = [users EXCEPT ![u].is_active = FALSE]
    /\ last' = Response("deactivate_account", u, 0, 200, AuthBody(token, {}))
    /\ UNCHANGED <<sessions, nextSession, bucket, invitations, now,
                   uploads, nextUpload, tasks, inflight, tokens, profiles>>

(* POST /forgot-password: the answer for the row found (or None); the    *)
(* lookup only decides whether a line is logged                          *)
ForgotPasswordAnswerMutant(user) ==
    IF user = None
    THEN [code |-> 404, body |-> Some("User not found")]
    ELSE [code |-> 200,
          body |-> Some("If the email exists, a password reset link has been sent")]

ForgotPasswordAnswer(user) ==
    [code |-> 200,
     body |-> Some("If the email exists, a password reset link has been sent")]

ForgotPassword(email) ==
    /\ LET answer == ForgotPasswordAnswer(UserByEmail(email))
       IN last' = Response("forgot_password", email, 0, answer.code, answer.body)
    /\ UNCHANGED <<users, sessions, nextSession, bucket, invitations, now,
                   uploads, nextUpload, tasks, inflight, tokens, profiles>>

ResetEmails == {"c1@x", "n1@x", "ghost@x"}

(* the validity windows of the two token types pass *)
Elapse(d) ==
    /\ (now % (2 * d)) \div d < MaxElapses
    /\ now' = now + d
    /\ last' = NoRequest
    /\ UNCHANGED <<users, sessions, nextSession, bucket, invitations,
                   uploads, nextUpload, tasks, inflight, tokens, profiles>>

(* tokens the server never issued: a forged signature, a subject without a *)
(* row, no subject at all                                                  *)
ForeignTokens ==
    {[sub |-> Some("c1@x"), type |-> "access", exp |-> 2 * RefreshTTL, key |-> "forged"],
     [sub |-> Some("ghost@x"), type |-> "access", exp |-> 2 * RefreshTTL, key |-> SecretKey],
     [sub |-> Some("ghost@x"), type |-> "refresh", exp |-> 2 * RefreshTTL, key |-> SecretKey],
     [sub |-> None, type |-> "access", exp |-> 2 * RefreshTTL, key |-> SecretKey]}

PresentedTokens == tokens \cup ForeignTokens

Credentials ==
    {<<"c1@x", "password-c1">>, <<"u1@x", "password-c1">>, <<"n1@x", "password-n1">>}

(* the endpoints of this run that sit behind get_current_active_user *)
GatedOps == {"get_current_user_info", "deactivate_account", "create_session"}

AuthNext ==
    \/ \E d \in {AccessTTL, RefreshTTL} : Elapse(d)
    \/ \E k \in Conns, data \in RegisterRequests : CreateUserCheck(k, data)
    \/ \E r \in inflight :
            Cardinality(tokens) + 2 <= MaxTokens /\ CreateUserCommit(r)
    \/ \E c \in Credentials :
            Cardinality(tokens) + 2 <= MaxTokens /\ Login(c[1], c[2])
    \/ \E t \in PresentedTokens :
            Cardinality(tokens) + 2 <= MaxTokens /\ RefreshToken(t)
    \/ \E t \in PresentedTokens : Logout(t)
    \/ \E e \in ResetEmails : ForgotPassword(e)
    \/ \E t \in PresentedTokens, op \in GatedOps : RefuseToken(t, op)
    \/ \E t \in PresentedTokens :
            IsSet(Admitted(t)) /\ GetCurrentUserInfo(Val(Admitted(t)), t)
    \/ \E t \in PresentedTokens :
            IsSet(Admitted(t)) /\ DeactivateAccount(Val(Admitted(t)), t)
    \/ \E t \in PresentedTokens, tl \in Titles :
            /\ nextSession <= MaxSessions
            /\ IsSet(Admitted(t))
            /\ CreateSession(Val(Admitted(t)), "u1", tl)

AuthSpec == Init /\ [][AuthNext]_vars

----------------------------------------------------------------------------
(* Roles: properties *)

(* the mutating operations the spec reserves to coaches *)
CoachOnlyOps ==
    {"create_session", "update_session", "delete_session",
     "invite_client", "resend_invitation", "cancel_invitation",
     "create_session_from_s3", "upload_session_recording", "delete_s3_recording",
     "upload_recording", "get_presigned_upload_url", "delete_recording"}

(* C15: every coach-only mutating endpoint answers an authenticated caller
   whose role is not coach with 403 and changes no state. *)
C15_NonCoachForbidden ==
    [][(/\ last'.op \in CoachOnlyOps
        /\ last'.caller \in DOMAIN users
        /\ users[last'.caller].role # "coach")
        => /\ last'.code = 403
           /\ UNCHANGED <<users, sessions, bucket, invitations, uploads>>]_vars

----------------------------------------------------------------------------
(* Authentication: properties *)

UniqueEmails ==
    \A u, v \in DOMAIN users : users[u].email = users[v].email => u = v

(* C16: after any sequence of registrations, interleaved ones included, no *)
(* two User rows have the same email, and a well-formed registration for   *)
(* an email that already has a row is answered 400 and creates no row.     *)
C16_RegistrationKeepsEmailsUnique ==
    [][/\ UniqueEmails'
       /\ (/\ last'.op = "register"
           /\ last'.code # 422
           /\ IsSet(UserByEmail(last'.caller)))
          => (last'.code = 400 /\ users' = users)]_vars

(* a token the server signed and whose exp has not passed *)
ValidToken(t) == t.key = SecretKey /\ t.exp >= now

SubjectOf(t) == IF IsSet(t.sub) THEN UserByEmail(Val(t.sub)) ELSE None

CurrentUserOps == {"logout", "get_current_user_info", "deactivate_account"}

(* C17: the current-user dependency lets a request through only with a     *)
(* validly signed, unexpired access token whose subject is the email of an *)
(* existing user, so a refresh token is answered 401; POST /refresh        *)
(* exchanges only a valid refresh token of an existing active user, so an  *)
(* access token is answered 401, and it answers nothing but 200 and 401.   *)
C17_TokenTypesNotInterchangeable ==
    [][/\ (last'.op \in CurrentUserOps /\ last'.code # 401)
            => LET t == Val(last'.out).presented
               IN ValidToken(t) /\ t.type = "access" /\ IsSet(SubjectOf(t))
       /\ (last'.op \in CurrentUserOps /\ Val(last'.out).presented.type = "refresh")
            => last'.code = 401
       /\ last'.op = "refresh_token"
            => /\ last'.code \in {200, 401}
               /\ Val(last'.out).presented.type = "access" => last'.code = 401
               /\ last'.code = 200
                    => LET t == Val(last'.out).presented
                       IN /\ ValidToken(t) /\ t.type = "refresh"
                          /\ IsSet(SubjectOf(t))
                          /\ users[Val(SubjectOf(t))].is_active]_vars

(* a refresh token the server issued, still valid, of an active user, is   *)
(* presented as a bearer token and refused                                 *)
C17_Witness ==
    /\ last.op = "logout"
    /\ last.code = 401
    /\ LET t == Val(last.out).presented
       IN /\ t \in tokens
          /\ t.type = "refresh"
          /\ ValidToken(t)
          /\ IsSet(SubjectOf(t))
          /\ users[Val(SubjectOf(t))].is_active

(* C18: for a user whose account is deactivated, login with the right      *)
(* password is answered 403 and refresh 401, neither issuing a token, and  *)
(* every endpoint behind the active-user dependency answers that user's    *)
(* valid access token with 400 and changes nothing.                        *)
C18_DeactivatedUserLockedOut ==
    [][/\ last'.op = "login"
            => LET c == Val(last'.out).presented
                   u == UserByEmail(c.username)
               IN (/\ IsSet(u)
                   /\ ~users[Val(u)].is_active
                   /\ VerifyPassword(c.password, users[Val(u)].hashed_password))
                  => (last'.code = 403 /\ tokens' = tokens)
       /\ last'.op = "refresh_token"
            => LET u == SubjectOf(Val(last'.out).presented)
               IN (IsSet(u) /\ ~users[Val(u)].is_active)
                  => (last'.code = 401 /\ tokens' = tokens)
       /\ (/\ last'.op \in GatedOps
           /\ last'.caller \in DOMAIN users
           /\ ~users[last'.caller].is_active)
          => /\ last'.code = 400
             /\ UNCHANGED <<users, sessions, nextSession, bucket, invitations,
                            uploads, nextUpload, tasks, inflight, tokens, profiles>>]_vars

(* a deactivated coach presents an access token that is still valid to     *)
(* POST /sessions and is refused                                           *)
C18_Witness ==
    /\ last.op = "create_session"
    /\ last.code = 400
    /\ last.caller \in DOMAIN users
    /\ ~users[last.caller].is_active
    /\ LET t == Val(last.out).presented
       IN t \in tokens /\ t.type = "access" /\ ValidToken(t)
    /\ sessions = << >>

----------------------------------------------------------------------------
(* A coach's library: scheduled sessions next to uploaded recordings *)

MaxLibrarySessions == 2

ClientIds == UserIds \cup {"nobody"}

LibraryRequests ==
    [s3_key : {KeyOfC1}, title : Titles, client_id : {"u1", "nobody"},
     session_date : {0}, duration_minutes : {60}]

LibNext ==
    \/ Tick
    \/ \E c \in UserIds, u \in ClientIds, t \in Titles :
            nextSession <= MaxLibrarySessions /\ CreateSession(c, u, t)
    \/ PutObject(KeyOfC1)
    \/ \E c \in UserIds, r \in LibraryRequests, ok \in BOOLEAN :
            nextSession <= MaxLibrarySessions /\ CreateSessionFromS3(c, r, ok)
    \/ \E c \in UserIds, f \in UploadForms, t \in BOOLEAN, ok \in BOOLEAN :
            nextSession <= MaxLibrarySessions /\ UploadSessionRecording(c, f, t, ok)
    \/ \E c \in UserIds, ok \in BOOLEAN : DeleteS3Recording(c, KeyOfC1, ok)

LibSpec == Init /\ [][LibNext]_vars

----------------------------------------------------------------------------
(* A coach's library: properties *)

ValidClient(client_id) ==
    client_id \in DOMAIN users /\ users[client_id].role = "client"

(* C19: POST /sessions by a coach answers 404 and creates no row when the  *)
(* named client does not exist or is not a client; for a valid client it   *)
(* always creates a scheduled session with a non-null room_name that no    *)
(* other session has, also when the same coach creates another session for *)
(* the same client within the same clock second.                           *)
C19_CreateSessionUniqueRoom ==
    [][(last'.op = "create_session" /\ users[last'.caller].role = "coach")
        => IF ~ValidClient(Val(last'.out))
           THEN last'.code = 404 /\ sessions' = sessions
           ELSE \E s \in DOMAIN sessions' \ DOMAIN sessions :
                    /\ sessions'[s].status = "scheduled"
                    /\ sessions'[s].client_id = Val(last'.out)
                    /\ IsSet(sessions'[s].room_name)
                    /\ \A o \in DOMAIN sessions' \ {s} :
                            sessions'[o].room_name # sessions'[s].room_name]_vars

UniqueRecordingKeys ==
    \A s, t \in SessionIds :
        (IsSet(sessions[s].recording_s3_key)
            /\ sessions[s].recording_s3_key = sessions[t].recording_s3_key) => s = t

(* C20: POST /create-from-s3 creates no row for a key that some Session    *)
(* already references and answers 400 (unless the role, object or folder   *)
(* check refused the request first); after any sequence of create-from-s3  *)
(* and coach-sessions upload calls, run one after the other, no two        *)
(* Session rows reference the same recording_s3_key.                       *)
C20_OneSessionPerRecordingKey ==
    [][/\ (last'.op = "create_session_from_s3" /\ IsSet(SessionOfKey(last'.id)))
            => (last'.code \in {400, 403, 404} /\ sessions' = sessions)
       /\ UniqueRecordingKeys']_vars

(* C21: POST /forgot-password answers every email with the same status and *)
(* the same body and changes no persisted state, whether or not a user has *)
(* that email: the answer tells the caller nothing about the users table.  *)
C21_ForgotPasswordTellsNothing ==
    [][last'.op = "forgot_password"
        => /\ last'.code = 200
           /\ last'.out = Some("If the email exists, a password reset link has been sent")
           /\ \A e \in ResetEmails :
                /\ ForgotPasswordAnswer(UserByEmail(e)).code = last'.code
                /\ ForgotPasswordAnswer(UserByEmail(e)).body = last'.out
           /\ UNCHANGED <<users, sessions, nextSession, bucket, invitations,
                          uploads, nextUpload, tasks, inflight, tokens, profiles>>]_vars

(* both runs happen in one state: one email has a row, another has none,   *)
(* and the request for the one without a row was answered                  *)
C21_Witness ==
    /\ last.op = "forgot_password"
    /\ last.code = 200
    /\ ~IsSet(UserByEmail(last.caller))
    /\ \E e \in ResetEmails : IsSet(UserByEmail(e))

----------------------------------------------------------------------------
(* Health (api/health.py): no dependency, no database session *)

(* datetime.isoformat() *)
IsoFormat(t) == <<"iso", ToString(t)>>

HealthCheckMutant ==
    /\ last' = IF \E s \in SessionIds : sessions[s].status = "in_progress"
               THEN Response("health_check", "", 0, 503,
                             Some([status |-> "busy", timestamp |-> IsoFormat(now)]))
               ELSE Response("health_check", "", 0, 200,
                             Some([status |-> "healthy", timestamp |-> IsoFormat(now)]))
    /\ UNCHANGED <<users, sessions, nextSession, bucket, invitations, now,
                   uploads, nextUpload, tasks, inflight, tokens, profiles>>

HealthCheck ==
    /\ last' = Response("health_check", "", 0, 200,
                        Some([status |-> "healthy", timestamp |-> IsoFormat(now)]))
    /\ UNCHANGED <<users, sessions, nextSession, bucket, invitations, now,
                   uploads, nextUpload, tasks, inflight, tokens, profiles>>

(* the three probes are not implemented: each check is the literal False *)
ReadinessChecks == [database |-> FALSE, redis |-> FALSE, livekit |-> FALSE]

(* all(checks.values()) *)
AllReadyMutant(checks) == \E k \in DOMAIN checks : ~checks[k]

AllReady(checks) == \A k \in DOMAIN checks : checks[k]

ReadinessCheck ==
    /\ LET checks == ReadinessChecks
           all_ready == AllReady(checks)
       IN last' = Response("readiness_check", "", 0, 200,
                           Some([status |-> IF all_ready THEN "ready" ELSE "not_ready",
                                 checks |-> checks,
                                 timestamp |-> IsoFormat(now)]))
    /\ UNCHANGED <<users, sessions, nextSession, bucket, invitations, now,
                   uploads, nextUpload, tasks, inflight, tokens, profiles>>

LivenessCheck ==
    /\ last' = Response("liveness_check", "", 0, 200, Some([status |-> "alive"]))
    /\ UNCHANGED <<users, sessions, nextSession, bucket, invitations, now,
                   uploads, nextUpload, tasks, inflight, tokens, profiles>>

(* the probes next to the session lifecycle *)
HealthNext ==
    \/ Next
    \/ HealthCheck
    \/ ReadinessCheck
    \/ LivenessCheck

HealthSpec == Init /\ [][HealthNext]_vars

----------------------------------------------------------------------------
(* Health: properties *)

(* C22: GET /health/ready answers 200 with a body of status, checks and    *)
(* timestamp; checks has exactly the keys database, redis and livekit, and *)
(* status is "ready" exactly when every check is true, else "not_ready".   *)
C22_ReadinessReportsChecks ==
    [][last'.op = "readiness_check"
        => /\ last'.code = 200
           /\ LET body == Val(last'.out)
              IN /\ DOMAIN body = {"status", "checks", "timestamp"}
                 /\ DOMAIN body.checks = {"database", "redis", "livekit"}
                 /\ body.status \in {"ready", "not_ready"}
                 /\ body.status = "ready"
                        <=> (body.checks.database /\ body.checks.redis /\ body.checks.livekit)]_vars

(* the probe answered while the service holds a session *)
C22_Witness ==
    /\ last.op = "readiness_check"
    /\ last.code = 200
    /\ Val(last.out).status = "not_ready"
    /\ SessionIds # {}

(* C23: in every state, and with no caller, GET /health answers 200 with   *)
(* status "healthy" and a timestamp and GET /health/live answers 200 with  *)
(* status "alive"; the answers do not depend on the stored rows and no     *)
(* stored row changes.                                                     *)
C23_HealthAlwaysAnswers ==
    [][/\ last'.op = "health_check"
            => /\ last'.code = 200
               /\ last'.caller = ""
               /\ DOMAIN Val(last'.out) = {"status", "timestamp"}
               /\ Val(last'.out).status = "healthy"
               /\ Val(last'.out).timestamp = IsoFormat(now)
               /\ UNCHANGED <<users, sessions, nextSession, bucket, invitations,
                              uploads, nextUpload, tasks, inflight, tokens, profiles>>
       /\ last'.op = "liveness_check"
            => /\ last'.code = 200
               /\ last'.caller = ""
               /\ last'.out = Some([status |-> "alive"])
               /\ UNCHANGED <<users, sessions, nextSession, bucket, invitations,
                              uploads, nextUpload, tasks, inflight, tokens, profiles>>
       /\ ENABLED HealthCheck /\ ENABLED LivenessCheck]_vars

(* the liveness probe answered while a session is in progress *)
C23_Witness ==
    /\ last.op = "liveness_check"
    /\ last.code = 200
    /\ \E s \in SessionIds : sessions[s].status = "in_progress"

----------------------------------------------------------------------------
(* Room webhook: properties *)

(* the rows other than s are the same before and after the step *)
OnlyRowChanged(s) ==
    /\ DOMAIN sessions' = DOMAIN sessions
    /\ \A o \in SessionIds \ {s} : sessions'[o] = sessions[o]

(* C24: room_started for a room name that matches a session records the   *)
(* provider's room sid, sets status in_progress and stamps started_at and, *)
(* when the recording was started, stores its egress id with               *)
(* recording_status pending; room_finished for a matching session sets     *)
(* status completed, stamps ended_at and computes actual_duration_minutes  *)
(* from started_at; a webhook whose room matches no session changes no     *)
(* row; every case answers {status: success, event}.                       *)
C24_RoomWebhookEffects ==
    [][last'.op = "room_webhook"
        => LET found == SessionOfRoom(last'.id)
               event == Val(last'.out).event
           IN /\ last'.code = 200
              /\ Val(last'.out).status = "success"
              /\ event \in RoomEvents
              /\ ~IsSet(found) => sessions' = sessions
              /\ (IsSet(found) /\ event = "room_started")
                    => LET s == Val(found)
                       IN /\ OnlyRowChanged(s)
                          /\ sessions'[s].room_sid = Some("RM1")
                          /\ sessions'[s].status = "in_progress"
                          /\ sessions'[s].started_at = Some(now)
                          /\ \/ /\ sessions'[s].recording_egress_id = sessions[s].recording_egress_id
                                /\ sessions'[s].recording_status = sessions[s].recording_status
                             \/ /\ sessions'[s].recording_egress_id = Some("EG1")
                                /\ sessions'[s].recording_status = Some("pending")
              /\ (IsSet(found) /\ event = "room_finished")
                    => LET s == Val(found)
                       IN /\ OnlyRowChanged(s)
                          /\ sessions'[s].status = "completed"
                          /\ sessions'[s].ended_at = Some(now)
                          /\ IsSet(sessions[s].started_at)
                                => /\ IsSet(sessions'[s].actual_duration_minutes)
                                   /\ Val(sessions'[s].actual_duration_minutes) * 60
                                        <= now - Val(sessions[s].started_at)
                                   /\ now - Val(sessions[s].started_at)
                                        < (Val(sessions'[s].actual_duration_minutes) + 1) * 60]_vars

(* the room was started with a recording and, later, finished *)
C24_Witness ==
    /\ last.op = "room_webhook"
    /\ Val(last.out).event = "room_finished"
    /\ \E s \in SessionIds :
        /\ sessions[s].room_name = last.id
        /\ sessions[s].status = "completed"
        /\ sessions[s].room_sid = Some("RM1")
        /\ sessions[s].recording_egress_id = Some("EG1")
        /\ sessions[s].recording_status = Some("pending")
        /\ IsSet(sessions[s].started_at)
        /\ sessions[s].ended_at = Some(now)
        /\ now > Val(sessions[s].started_at)
        /\ sessions[s].actual_duration_minutes = Some(0)

----------------------------------------------------------------------------
(* Client profiles (api/users.py, services/user.py, models/client.py) *)

MaxProfiles == 3

ProfileIds == DOMAIN profiles

(* ClientProfile(client_id, coach_id, is_active=True); the table has a     *)
(* primary key and no constraint on the pair                               *)
NewProfile(client, coach) ==
    [client_id |-> client, coach_id |-> coach, is_active |-> TRUE]

(* the existence query of create_client_profile *)
ExistingProfile(client, coach) ==
    First({p \in ProfileIds :
            profiles[p].client_id = client /\ profiles[p].coach_id = coach})

ProfileEmails == {"u1@x", "c1@x", "ghost@x"}

(* POST /users/clients up to the existence query: require_coach (403), the *)
(* user of client_email (404), the profile of the pair (400)               *)
CreateClientProfileCheck(conn, caller, client_email) ==
    /\ caller \in ActiveUsers
    /\ ~ \E r \in inflight : r.conn = conn
    /\ UNCHANGED <<users, sessions, nextSession, bucket, invitations, now,
                   uploads, nextUpload, tasks, tokens, profiles>>
    /\ LET client == UserByEmail(client_email)
           fail(code) ==
               /\ last' = Response("create_client_profile", caller, 0, code, Some(client))
               /\ UNCHANGED inflight
       IN
       IF users[caller].role # "coach" THEN fail(403)
       ELSE IF client = None THEN fail(404)
       ELSE IF IsSet(ExistingProfile(Val(client), caller)) THEN fail(400)
       ELSE /\ inflight' = inflight \cup
                    {[conn |-> conn, client_id |-> Val(client), coach_id |-> caller]}
            /\ last' = NoRequest

(* POST /users/clients from db.add / db.commit on: nothing refuses the row *)
CreateClientProfileCommit(r) ==
    /\ r \in inflight
    /\ inflight' = inflight \ {r}
    /\ profiles' = Append(profiles, NewProfile(r.client_id, r.coach_id))
    /\ last' = Response("create_client_profile", r.coach_id, Len(profiles) + 1, 201,
                        Some(Some(r.client_id)))
    /\ UNCHANGED <<users, sessions, nextSession, bucket, invitations, now,
                   uploads, nextUpload, tasks, tokens>>

ProfNext ==
    \/ \E k \in Conns, c \in UserIds, e \in ProfileEmails :
            CreateClientProfileCheck(k, c, e)
    \/ \E r \in inflight :
            Len(profiles) < MaxProfiles /\ CreateClientProfileCommit(r)

ProfSpec == Init /\ [][ProfNext]_vars

----------------------------------------------------------------------------
(* Client profiles: properties *)

OneProfilePerPair ==
    \A p, q \in ProfileIds :
        (profiles[p].client_id = profiles[q].client_id
            /\ profiles[p].coach_id = profiles[q].coach_id) => p = q

(* C25: in every state there is at most one ClientProfile row per (client, *)
(* coach) pair, also when two POST /clients for the same pair run so that  *)
(* both existence checks precede both inserts; a create for a pair that    *)
(* already has a profile is answered 400 and adds no row.                  *)
C25_OneProfilePerPair ==
    [][/\ OneProfilePerPair'
       /\ (/\ last'.op = "create_client_profile"
           /\ users[last'.caller].role = "coach"
           /\ IsSet(Val(last'.out))
           /\ IsSet(ExistingProfile(Val(Val(last'.out)), last'.caller)))
          => (last'.code = 400 /\ profiles' = profiles)]_vars

----------------------------------------------------------------------------
(* Uploads of one session: upload, presigned URL, confirmation and the     *)
(* background task, in any order                                           *)

IngestNext ==
    \/ \E c \in UserIds, u \in UserIds, t \in Titles :
            nextSession <= MaxSessions /\ CreateSession(c, u, t)
    \/ \E c \in UserIds, s \in 1..MaxSessions, src \in UploadSources,
          pf \in {None, Some("zoom")}, ok \in BOOLEAN :
            nextUpload <= MaxUploads /\ UploadRecording(c, s, src, pf, ok)
    \/ \E c \in UserIds, s \in 1..MaxSessions, ok \in BOOLEAN :
            nextUpload <= MaxUploads /\ GetPresignedUploadUrl(c, s, "f.mp4", ok)
    \/ \E up \in 1..MaxUploads : PutUploadedObject(up)
    \/ \E c \in UserIds, up \in 1..MaxUploads : ConfirmUpload(c, up)
    \/ \E t \in tasks, o \in TaskOutcomes : DownloadAndUploadRecording(t, o)

IngestSpec == Init /\ [][IngestNext]_vars

(* C26: if a session's s3_upload_status is completed and its s3_upload_key *)
(* is k, a SessionUpload row of that session with s3_key = k has           *)
(* upload_status completed.                                                *)
C26_CompletedKeyHasCompletedUpload ==
    \A s \in SessionIds :
        (sessions[s].s3_upload_status = Some("completed") /\ IsSet(sessions[s].s3_upload_key))
            => \E up \in UploadIds :
                /\ uploads[up].session_id = s
                /\ Some(uploads[up].s3_key) = sessions[s].s3_upload_key
                /\ uploads[up].upload_status = "completed"

----------------------------------------------------------------------------
(* Session timestamps: properties *)

(* C27: started_at is write-once: once it holds a value, no join, PATCH,   *)
(* end, room_started or room_finished changes it.                          *)
C27_StartedAtWriteOnce ==
    [][\A s \in SessionIds :
        (s \in DOMAIN sessions' /\ IsSet(sessions[s].started_at))
            => sessions'[s].started_at = sessions[s].started_at]_vars

(* C28: a session whose status is in_progress has a started_at and a       *)
(* session whose status is completed has an ended_at, whichever operation  *)
(* produced the status.                                                    *)
C28_StatusImpliesTimestamp ==
    \A s \in SessionIds :
        /\ sessions[s].status = "in_progress" => IsSet(sessions[s].started_at)
        /\ sessions[s].status = "completed" => IsSet(sessions[s].ended_at)

(* a PATCH took a scheduled session straight to completed, and it has an   *)
(* ended_at although it never started                                      *)
C28_Witness ==
    /\ last.op = "update_session"
    /\ last.code = 200
    /\ sessions[last.id].status = "completed"
    /\ ~IsSet(sessions[last.id].started_at)
    /\ sessions[last.id].ended_at = Some(now)

----------------------------------------------------------------------------
(* Invitations: terminal statuses *)

TerminalInvitationStatus == {"accepted", "expired", "cancelled"}

(* C29: accepted, expired and cancelled are terminal: an invitation whose
   stored status is one of them keeps its status and its expires_at through
   every invite, list, resend and cancel, and a resend or a cancel of it by
   the coach who owns it is answered 400. *)
C29_TerminalInvitationStatuses ==
    [][\A i \in InvitationIds :
        invitations[i].status \in TerminalInvitationStatus
            => /\ i \in DOMAIN invitations'
               /\ invitations'[i].status = invitations[i].status
               /\ invitations'[i].expires_at = invitations[i].expires_at
               /\ (/\ last'.op \in {"resend_invitation", "cancel_invitation"}
                   /\ last'.id = i
                   /\ OwnInvitation(last'.caller, i))
                    => last'.code = 400]_vars

(* C29 witness: a cancel of an invitation that a listing had marked expired
   was refused, and the invitation is still expired. *)
C29_Witness ==
    /\ last.op = "cancel_invitation"
    /\ last.code = 400
    /\ invitations[last.id].status = "expired"
    /\ invitations[last.id].expires_at < now

----------------------------------------------------------------------------
(* Deleting a stored recording: properties *)

SessionsOfKey(tbl, key) ==
    {s \in DOMAIN tbl : tbl[s].recording_s3_key = Some(key)}

(* C30: DELETE /s3-recording/{key} is all-or-nothing: answered with an error
   because the storage deletion failed, every session that referenced the
   key is still there as it was; answered with success, neither the object
   nor any session whose recording_s3_key is the key remains. *)
C30_DeleteRecordingAllOrNothing ==
    [][last'.op = "delete_s3_recording"
        => LET key == last'.id IN
           /\ last'.code = 500
                => \A s \in SessionsOfKey(sessions, key) :
                        s \in DOMAIN sessions' /\ sessions'[s] = sessions[s]
           /\ last'.code = 200
                => /\ key \notin bucket'
                   /\ SessionsOfKey(sessions', key) = {}]_vars

====
